---- MODULE Spec2Model ----
(*
  A model of raster.py: the R-raster (.grd/.gri) loader load_r_raster, the
  dispatching loader load, the table builder make_table and the pipeline
  entry point rasters_to_table.

  File names are sequences of the tokens that filename.split(os.path.extsep)
  yields (<<"a","grd">> is a.grd); no name has a directory part, so
  os.path.basename leaves it alone.  Floating-point quantities are exact
  rationals [n, d]; integer-valued floats are integers.
*)
EXTENDS Integers, Sequences, FiniteSets, TLC

VARIABLES
    pc,          \* position of the running call
    disk,        \* the files on disk: path -> content
    filenames,   \* the file names handed to the call
    rastertype,  \* load's format hint
    rasters,     \* the raster handles handed to make_table / held by rasters_to_table
    calls,       \* the calls made to collaborators, in order
    result       \* what the call returned or raised

vars == <<pc, disk, filenames, rastertype, rasters, calls, result>>

-----------------------------------------------------------------------------
(* Bounds *)

MaxCells == 2      \* values written into a payload
MaxJunk  == 1      \* stray bytes after the written values
MaxDim   == 2      \* nrows, ncols of a sidecar; rows, cols of a grid
MaxFiles == 2      \* file names in one rasters_to_table call
MaxRasters == 2    \* handles in one make_table call

-----------------------------------------------------------------------------
(* Python values and exceptions *)

None == [none |-> TRUE]

Raise(e) == [ok |-> FALSE, err |-> e]
Return(v) == [ok |-> TRUE, val |-> v]

-----------------------------------------------------------------------------
(* Exact rationals for the float arithmetic *)

RECURSIVE GCD(_, _)
GCD(a, b) == IF b = 0 THEN a ELSE GCD(b, a % b)

Abs(a) == IF a < 0 THEN -a ELSE a

Rat(n, d) ==
    LET g == GCD(Abs(n), Abs(d))
        s == IF d < 0 THEN -1 ELSE 1
    IN  [n |-> (s * n) \div g, d |-> (s * d) \div g]

RInt(k) == [n |-> k, d |-> 1]
RAdd(a, b) == Rat(a.n * b.d + b.n * a.d, a.d * b.d)
RSub(a, b) == Rat(a.n * b.d - b.n * a.d, a.d * b.d)
RMul(a, b) == Rat(a.n * b.n, a.d * b.d)
RDiv(a, b) == Rat(a.n * b.d, a.d * b.n)

-----------------------------------------------------------------------------
(* struct: the module-level tables and pack/unpack *)

Tags == {"LOG1S", "INT1S", "INT2S", "INT4S", "INT8S", "INT1U", "INT2U",
         "FLT4S", "FLT8S"}

DATATYPES == [LOG1S |-> "?", INT1S |-> "b", INT2S |-> "h", INT4S |-> "i",
              INT8S |-> "q", INT1U |-> "B", INT2U |-> "H", FLT4S |-> "f",
              FLT8S |-> "d"]

BYTEORDER == [little |-> "<", big |-> ">"]

GDALTYPES == [LOG1S |-> "Byte", INT1S |-> "Byte", INT2S |-> "Int16",
              INT4S |-> "Int32", INT8S |-> "Int32", INT1U |-> "Byte",
              INT2U |-> "UInt16", FLT4S |-> "Float32", FLT8S |-> "Float64"]

calcsize(c) ==
    CASE c \in {"?", "b", "B"} -> 1
      [] c \in {"h", "H"} -> 2
      [] c \in {"i", "f"} -> 4
      [] c \in {"q", "d"} -> 8

Reverse(s) == [k \in 1..Len(s) |-> s[Len(s) + 1 - k]]

\* the w low-order base-256 digits of v, least significant first
\* (two's complement for a negative v)
RECURSIVE LEDigits(_, _)
LEDigits(v, w) ==
    IF w = 0 THEN <<>> ELSE <<v % 256>> \o LEDigits(v \div 256, w - 1)

\* the number whose base-256 digits, most significant first, are bs
RECURSIVE FromBE(_, _)
FromBE(acc, bs) ==
    IF bs = <<>> THEN acc ELSE FromBE(acc * 256 + Head(bs), Tail(bs))

SignedBE(bs) ==
    FromBE(IF Head(bs) >= 128 THEN Head(bs) - 256 ELSE Head(bs), Tail(bs))

\* IEEE-754 bit patterns (most significant byte first) of the floats used
FloatBits(c, v) ==
    LET hi == IF c = "f"
              THEN CASE v = 0 -> <<0, 0>> [] v = 1 -> <<63, 128>>
                     [] v = -1 -> <<191, 128>> [] v = 2 -> <<64, 0>>
              ELSE CASE v = 0 -> <<0, 0>> [] v = 1 -> <<63, 240>>
                     [] v = -1 -> <<191, 240>> [] v = 2 -> <<64, 0>>
    IN  hi \o [k \in 1..(calcsize(c) - 2) |-> 0]

FloatOf(c, be) == CHOOSE v \in {-1, 0, 1, 2} : FloatBits(c, v) = be

\* struct.pack(bo + c, v)
PackValue(c, bo, v) ==
    LET be == CASE c = "?" -> <<IF v # 0 THEN 1 ELSE 0>>
                [] c \in {"f", "d"} -> FloatBits(c, v)
                [] OTHER -> Reverse(LEDigits(v, calcsize(c)))
    IN  IF bo = "<" THEN Reverse(be) ELSE be

\* struct.unpack(bo + c, bytes)[0]
UnpackValue(c, bo, bytes) ==
    LET be == IF bo = "<" THEN Reverse(bytes) ELSE bytes
    IN  CASE c = "?" -> (IF be[1] # 0 THEN 1 ELSE 0)
          [] c \in {"f", "d"} -> FloatOf(c, be)
          [] c \in {"b", "h", "i", "q"} -> SignedBE(be)
          [] OTHER -> FromBE(0, be)

RECURSIVE PackAll(_, _, _)
PackAll(c, bo, vs) ==
    IF vs = <<>> THEN <<>>
    ELSE PackValue(c, bo, Head(vs)) \o PackAll(c, bo, Tail(vs))

\* struct.unpack('%s%d%s' % (bo, n, c), binstring), once the sizes agree
UnpackAll(c, bo, n, binstring) ==
    LET w == calcsize(c)
    IN  [k \in 1..n |-> UnpackValue(c, bo, SubSeq(binstring, (k-1)*w + 1, k*w))]

-----------------------------------------------------------------------------
(* GDAL and OSR, as far as raster.py uses them *)

\* the value range of a GDAL band type: what is written is converted to the
\* band type, out-of-range values going to the nearest end of the range
\* (the floats of the model are exact in Float32 and Float64)
Clamp(type, v) ==
    LET lo == CASE type = "Byte" -> 0 [] type = "UInt16" -> 0
                [] type = "Int16" -> -32768 [] OTHER -> v
        hi == CASE type = "Byte" -> 255 [] type = "UInt16" -> 65535
                [] type = "Int16" -> 32767 [] OTHER -> v
    IN  IF v < lo THEN lo ELSE IF v > hi THEN hi ELSE v

\* osr.SpatialReference().ImportFromProj4(p); ExportToWkt()
Proj4ToWkt(p) ==
    CASE p = "+proj=longlat" -> "GEOGCS[WGS 84]"
      [] p = "+proj=utm" -> "PROJCS[UTM]"

\* path with its last token replaced: tokens[-1] = ext; extsep.join(tokens)
WithExt(tokens, ext) == [tokens EXCEPT ![Len(tokens)] = ext]

\* a reshape that takes the first nrows*ncols values and drops the rest
ReshapeOK_truncating(n, nrows, ncols) ==
    nrows >= 0 /\ ncols >= 0 /\ nrows * ncols <= n

\* numpy.reshape(arr, (nrows, ncols)) succeeds; -1 asks numpy to infer an axis
ReshapeOK(n, nrows, ncols) ==
    CASE nrows = -1 /\ ncols = -1 -> FALSE
      [] nrows = -1 -> ncols > 0 /\ n % ncols = 0
      [] ncols = -1 -> nrows > 0 /\ n % nrows = 0
      [] OTHER -> nrows >= 0 /\ ncols >= 0 /\ nrows * ncols = n

-----------------------------------------------------------------------------
(* load_r_raster *)

\* line 74: the validity filter, as written
Filter(values, minval, maxval, nodatavalue) ==
    [k \in 1..Len(values) |->
        IF values[k] <= minval /\ values[k] >= maxval
        THEN values[k] ELSE nodatavalue]

\* lines 85-99: the in-memory dataset
MemDataset(tokens, cfg, arr) ==
    LET type == GDALTYPES[cfg.datatype]
    IN  [desc  |-> WithExt(tokens, "tif"),
         gt    |-> <<RInt(cfg.xmin), Rat(cfg.xmax - cfg.xmin, cfg.ncols),
                     RInt(0), RInt(cfg.ymax), RInt(0),
                     Rat(cfg.ymax - cfg.ymin, cfg.nrows)>>,
         proj  |-> Proj4ToWkt(cfg.projection),
         XSize |-> cfg.ncols,
         YSize |-> cfg.nrows,
         bands |-> << [desc   |-> "",
                       type   |-> type,
                       nodata |-> cfg.nodatavalue,
                       data   |-> [k \in 1..Len(arr) |-> Clamp(type, arr[k])]] >>]

load_r_raster(d, filename) ==
    LET tokens   == filename
        ini_path == WithExt(tokens, "grd")
        bin_path == WithExt(tokens, "gri")
    IN
    IF ini_path \notin DOMAIN d THEN Raise("TypeError")           \* line 48
    ELSE IF d[ini_path].kind # "ini" THEN Raise("ParsingError")   \* line 46
    ELSE IF bin_path \notin DOMAIN d THEN Raise("FileNotFoundError")
    ELSE
    LET cfg       == d[ini_path]
        binstring == d[bin_path].bytes
    IN
    IF cfg.datatype \notin DOMAIN DATATYPES THEN Raise("KeyError")
    ELSE IF cfg.byteorder \notin DOMAIN BYTEORDER THEN Raise("KeyError")
    ELSE
    LET dt == DATATYPES[cfg.datatype]
        bo == BYTEORDER[cfg.byteorder]
        n  == Len(binstring) \div calcsize(dt)      \* '%d' of the quotient
    IN
    IF n * calcsize(dt) # Len(binstring) THEN Raise("struct.error")
    ELSE IF cfg.ncols = 0 \/ cfg.nrows = 0 THEN Raise("ZeroDivisionError")
    ELSE
    LET values == Filter(UnpackAll(dt, bo, n, binstring),
                         cfg.minvalue, cfg.maxvalue, cfg.nodatavalue)
    IN
    IF ~ReshapeOK(Len(values), cfg.nrows, cfg.ncols) THEN Raise("ValueError")
    ELSE IF cfg.ncols < 1 \/ cfg.nrows < 1 THEN Raise("RuntimeError")
    ELSE Return(MemDataset(tokens, cfg, values))

-----------------------------------------------------------------------------
(* The R-raster file pairs the loader is run on *)

\* the values of each datatype that payloads are written from
Vals(tag) ==
    CASE tag = "LOG1S" -> {0, 1}
      [] tag \in {"INT1U", "INT2U"} -> {0, 1, 2}
      [] OTHER -> {-1, 1, 2}

SeqsUpTo(S, n) == UNION {[1..k -> S] : k \in 0..n}

Junk(n) == [k \in 1..n |-> 0]

SidecarAt(tag, byteorder, nrows, ncols, minvalue, maxvalue, ymin) ==
    [kind |-> "ini", datatype |-> tag, byteorder |-> byteorder,
     minvalue |-> minvalue, maxvalue |-> maxvalue, nodatavalue |-> -9,
     ncols |-> ncols, nrows |-> nrows,
     xmin |-> 0, xmax |-> 2, ymin |-> ymin, ymax |-> 10,
     projection |-> "+proj=longlat"]

Sidecar(tag, byteorder, nrows, ncols, minvalue, maxvalue) ==
    SidecarAt(tag, byteorder, nrows, ncols, minvalue, maxvalue, 8)

Payload(bytes) == [kind |-> "bin", bytes |-> bytes]

InitRRaster ==
    /\ pc = "load_r_raster"
    /\ filenames \in {<< <<"a", "grd">> >>, << <<"a", "gri">> >>}
    /\ \E tag \in Tags \cup {"FLT16S"}, byteorder \in {"little", "big"},
          nrows \in -1..MaxDim, ncols \in -1..MaxDim,
          minvalue \in {-1, 1}, maxvalue \in {-1, 2},
          junk \in 0..MaxJunk, sidecar \in BOOLEAN :
         \E vs \in SeqsUpTo(Vals(IF tag \in Tags THEN tag ELSE "INT1S"), MaxCells) :
            LET c   == DATATYPES[IF tag \in Tags THEN tag ELSE "INT1S"]
                bin == Payload(PackAll(c, BYTEORDER[byteorder], vs) \o Junk(junk))
                ini == Sidecar(tag, byteorder, nrows, ncols, minvalue, maxvalue)
            IN  disk = IF sidecar
                       THEN [p \in {<<"a", "grd">>, <<"a", "gri">>} |->
                                IF p[2] = "grd" THEN ini ELSE bin]
                       ELSE [p \in {<<"a", "gri">>} |-> bin]
    /\ rastertype = None
    /\ rasters = <<>>
    /\ calls = <<>>
    /\ result = None

\* a call load_r_raster(filename)
LoadRRaster ==
    /\ pc = "load_r_raster"
    /\ result' = load_r_raster(disk, filenames[1])
    /\ pc' = "done"
    /\ UNCHANGED <<disk, filenames, rastertype, rasters, calls>>

NextRRaster == LoadRRaster

SpecRRaster == InitRRaster /\ [][NextRRaster]_vars

-----------------------------------------------------------------------------
(* make_table *)

\* numpy.linspace(start, stop, num)
linspace(start, stop, num) ==
    [k \in 1..num |->
        IF num = 1 THEN start
        ELSE RAdd(start, RMul(RInt(k - 1), RDiv(RSub(stop, start), RInt(num - 1))))]

\* numpy.meshgrid(xs, ys): two arrays of Len(ys) rows and Len(xs) columns
meshgrid(xs, ys) ==
    [x_mesh |-> [r \in 1..Len(ys) |-> xs],
     y_mesh |-> [r \in 1..Len(ys) |-> [c \in 1..Len(xs) |-> ys[r]]]]

\* a numpy array, as opposed to a scalar
Array(elems) == [array |-> elems]

\* d[key] = v on a dict
SetItem(d, key, v) ==
    [k \in DOMAIN d \cup {key} |-> IF k = key THEN v ELSE d[k]]

EmptyDict == [k \in {} |-> 0]

\* lines 138-146: one pass of the loop over the bands of a raster.  st holds
\* the function's locals; band_name and i are unbound until first assigned
\* (the comprehensions at lines 130 and 136 have an i of their own).
BandStep(st, n_bands, b) ==
    LET name == b.desc                                             \* line 138
        fresh == name = ""
        needs_i == fresh /\ n_bands > 1
        band_name == IF ~fresh THEN st.band_name
                     ELSE IF n_bands > 1
                          THEN name \o "_" \o ToString(st.i + 1)   \* line 141
                          ELSE name                                \* line 143
        bound == fresh \/ st.band_name_bound
        values == b.data                                           \* line 144
    IN
    IF st.err # "" THEN st
    ELSE IF needs_i /\ ~st.i_bound THEN [st EXCEPT !.err = "UnboundLocalError"]
    ELSE IF values # <<>> /\ ~bound THEN [st EXCEPT !.err = "UnboundLocalError"]
    ELSE IF Len(values) > Len(st.instances) THEN [st EXCEPT !.err = "IndexError"]
    ELSE [st EXCEPT
            !.name = name,
            !.band_name = band_name,
            !.band_name_bound = bound,
            !.i = IF values = <<>> THEN @ ELSE Len(values) - 1,
            !.i_bound = @ \/ values # <<>>,
            !.instances = [k \in 1..Len(@) |->
                              IF k <= Len(values)
                              THEN SetItem(@[k], band_name, values[k])
                              ELSE @[k]]]

RECURSIVE BandLoop(_, _, _)
BandLoop(st, n_bands, bands) ==
    IF bands = <<>> THEN st
    ELSE BandLoop(BandStep(st, n_bands, Head(bands)), n_bands, Tail(bands))

\* lines 131-146: the loop over the rasters
RECURSIVE RasterLoop(_, _)
RasterLoop(st, rs) ==
    IF rs = <<>> \/ st.err # "" THEN st
    ELSE IF Head(rs) = None THEN [st EXCEPT !.err = "AttributeError"]
    ELSE LET r == Head(rs)
             name == r.desc[1]                                     \* line 134
         IN  RasterLoop(BandLoop([st EXCEPT !.name = name], Len(r.bands), r.bands),
                        Tail(rs))

\* lines 148-158: the x and y of every row
AddCoordinates(instances, gt, cols, rows) ==
    LET xres == gt[2]
        yres == gt[6]
        x_start == RAdd(gt[1], RDiv(xres, RInt(2)))
        x_end   == RAdd(x_start, RMul(xres, RInt(cols)))
        y_start == RSub(gt[4], RDiv(yres, RInt(2)))
        y_end   == RSub(y_start, RMul(yres, RInt(rows)))
        mesh    == meshgrid(linspace(x_start, x_end, cols),
                            linspace(y_start, y_end, rows))
    IN
    IF Len(instances) > Len(mesh.x_mesh) THEN Raise("IndexError")  \* x_mesh[i]
    ELSE Return([k \in 1..Len(instances) |->
                    SetItem(SetItem(instances[k], "x", Array(mesh.x_mesh[k])),
                            "y", Array(mesh.y_mesh[k]))])

make_table(rs) ==
    IF rs = <<>> THEN Raise("IndexError")                          \* line 122
    ELSE IF rs[1] = None THEN Raise("AttributeError")              \* line 122
    ELSE
    LET cols == rs[1].XSize
        rows == rs[1].YSize
        st0  == [instances |-> [k \in 1..(cols * rows) |-> EmptyDict],
                 name |-> "", band_name |-> "", band_name_bound |-> FALSE,
                 i |-> 0, i_bound |-> FALSE, err |-> ""]
        st   == RasterLoop(st0, rs)
    IN  IF st.err # "" THEN Raise(st.err)
        ELSE AddCoordinates(st.instances, rs[1].gt, cols, rows)

-----------------------------------------------------------------------------
(* The raster handles make_table is run on *)

GT(ox, xres, oy, yres) ==
    <<RInt(ox), RInt(xres), RInt(0), RInt(oy), RInt(0), RInt(yres)>>

Geotransforms == {GT(0, 1, 10, -1), GT(0, 2, 10, 2)}

\* the cell values of a band: different in every cell and in every band
BandData(seed, n) == [k \in 1..n |-> 100 * seed + k]

BandDescriptions == {<<"">>, <<"elev">>, <<"", "">>, <<"", "elev">>}

\* an open dataset: every band has the dataset's size
Dataset(desc, seed, gt, proj, cols, rows, descs) ==
    [desc  |-> desc, gt |-> gt, proj |-> proj, XSize |-> cols, YSize |-> rows,
     bands |-> [b \in 1..Len(descs) |->
                   [desc |-> descs[b], type |-> "Int32", nodata |-> -9,
                    data |-> BandData(10 * seed + b, cols * rows)]]]

InitTable ==
    /\ pc = "make_table"
    /\ \E gt \in Geotransforms, cols \in 1..MaxDim, rows \in 1..MaxDim,
          n \in 1..MaxRasters :
         \E descs \in [1..n -> BandDescriptions] :
            rasters = [j \in 1..n |->
                          Dataset(<<IF j = 1 THEN "a" ELSE "b", "tif">>, j, gt,
                                  "GEOGCS[WGS 84]", cols, rows, descs[j])]
    /\ disk = <<>>
    /\ filenames = <<>>
    /\ rastertype = None
    /\ calls = <<>>
    /\ result = None

\* a call make_table(rasters)
MakeTable ==
    /\ pc = "make_table"
    /\ result' = make_table(rasters)
    /\ pc' = "done"
    /\ UNCHANGED <<disk, filenames, rastertype, rasters, calls>>

NextTable == MakeTable

SpecTable == InitTable /\ [][NextTable]_vars

-----------------------------------------------------------------------------
(* load *)

Hint(v) == [hint |-> v]

\* a load that takes .bil files for the custom format too
ResolveType_bil(filename, hint) ==
    LET ext == filename[Len(filename)]
    IN  IF hint = None \/ hint = Hint("")
        THEN IF ext \in {"gri", "grd", "bil"} THEN Hint("r-raster") ELSE hint
        ELSE hint

\* lines 103-109: the raster type load settles on
ResolveType(filename, hint) ==
    LET ext == filename[Len(filename)]
    IN  IF hint = None \/ hint = Hint("")            \* not rastertype
        THEN IF ext \in {"gri", "grd"} THEN Hint("r-raster")
             ELSE IF ext = "bil" THEN Hint("bil")
             ELSE hint
        ELSE hint

\* gdal.Open(filename, gdal.GA_ReadOnly) with exceptions enabled (line 29)
GdalOpen(d, filename) ==
    IF filename \in DOMAIN d /\ d[filename].kind = "gdal"
    THEN Return(d[filename].ds)
    ELSE Raise("RuntimeError")

Call(fn, arg) == [fn |-> fn, arg |-> arg]

\* load(filename, rastertype): what it returns or raises, and the calls it makes
load(d, filename, hint) ==
    IF ResolveType(filename, hint) = Hint("r-raster")
    THEN [ret   |-> load_r_raster(d, filename),
          calls |-> <<Call("load_r_raster", filename)>>]
    ELSE LET opened == GdalOpen(d, filename)
         IN  IF opened.ok
             THEN [ret   |-> opened,
                   calls |-> <<Call("gdal.Open", filename)>>]
             ELSE [ret   |-> Return(None),                  \* lines 116-117
                   calls |-> <<Call("gdal.Open", filename),
                               Call("print", filename)>>]

-----------------------------------------------------------------------------
(* The files load and rasters_to_table are run on *)

WGS84 == "GEOGCS[WGS 84]"

Catalogue ==
    \* a: 2 rows x 1 column, geotransform (0, 2, 0, 10, 0, 1)
       (<<"a", "grd">> :> SidecarAt("INT2S", "little", 2, 1, 1, 1, 8))
    @@ (<<"a", "gri">> :> Payload(PackAll("h", "<", <<1, 1>>)))
    \* b: one cell, the same geotransform
    @@ (<<"b", "grd">> :> SidecarAt("INT2S", "big", 1, 1, -1, 2, 9))
    @@ (<<"b", "gri">> :> Payload(PackAll("h", ">", <<2>>)))
    \* c: a payload of three values for a grid of two cells
    @@ (<<"c", "grd">> :> SidecarAt("INT1U", "little", 2, 1, 0, 2, 8))
    @@ (<<"c", "gri">> :> Payload(PackAll("B", "<", <<1, 2, 0>>)))
    @@ (<<"d", "tif">> :> [kind |-> "gdal",
            ds |-> Dataset(<<"d", "tif">>, 4, GT(0, 2, 10, 1), WGS84, 1, 2, <<"">>)])
    @@ (<<"e", "tif">> :> [kind |-> "gdal",
            ds |-> Dataset(<<"e", "tif">>, 5, GT(0, 2, 10, 1), WGS84, 1, 1, <<"">>)])
    @@ (<<"f", "tif">> :> [kind |-> "gdal",
            ds |-> Dataset(<<"f", "tif">>, 6, GT(0, 1, 10, -1), WGS84, 1, 2, <<"">>)])
    @@ (<<"g", "bil">> :> [kind |-> "gdal",
            ds |-> Dataset(<<"g", "bil">>, 7, GT(0, 2, 10, 1), "PROJCS[UTM]", 1, 2,
                           <<"", "">>)])
    \* j: not a raster
    @@ (<<"j", "tif">> :> [kind |-> "junk"])

\* m.grd and x.tif are not on disk
FileNames ==
    {<<"a", "grd">>, <<"a", "gri">>, <<"b", "grd">>, <<"c", "grd">>,
     <<"m", "grd">>, <<"d", "tif">>, <<"e", "tif">>, <<"f", "tif">>,
     <<"g", "bil">>, <<"j", "tif">>, <<"x", "tif">>}

Hints == {None, Hint(""), Hint("r-raster"), Hint("bil"), Hint("generic"),
          Hint("GTiff")}

InitLoad ==
    /\ pc = "load"
    /\ disk = Catalogue
    /\ \E f \in FileNames : filenames = <<f>>
    /\ rastertype \in Hints
    /\ rasters = <<>>
    /\ calls = <<>>
    /\ result = None

\* a call load(filename, rastertype)
Load ==
    /\ pc = "load"
    /\ LET l == load(disk, filenames[1], rastertype)
       IN  /\ result' = l.ret
           /\ calls' = calls \o l.calls
    /\ pc' = "done"
    /\ UNCHANGED <<disk, filenames, rastertype, rasters>>

NextLoad == Load

SpecLoad == InitLoad /\ [][NextLoad]_vars

-----------------------------------------------------------------------------
(* rasters_to_table *)

\* line 33
all_equal(sequence) ==
    Cardinality({k \in 1..Len(sequence) : sequence[k] = sequence[1]})
        = Len(sequence)

\* a collection step that passes over the files that gave no handle
Gather_skipping(rs) ==
    LET got == SelectSeq(rs, LAMBDA r : r # None)
    IN  IF got = <<>> THEN Raise("ValueError")
        ELSE Return([geotransforms |-> [k \in 1..Len(got) |-> got[k].gt],
                     projections   |-> [k \in 1..Len(got) |-> got[k].proj]])

\* lines 163-164: the geotransform and projection of every raster
Gather(rs) ==
    IF \E k \in 1..Len(rs) : rs[k] = None THEN Raise("AttributeError")
    ELSE IF rs = <<>> THEN Raise("ValueError")         \* nothing to unpack
    ELSE Return([geotransforms |-> [k \in 1..Len(rs) |-> rs[k].gt],
                 projections   |-> [k \in 1..Len(rs) |-> rs[k].proj]])

Init ==
    /\ pc = "load"
    /\ disk = Catalogue
    /\ filenames \in SeqsUpTo(FileNames, MaxFiles)
    /\ rastertype = None
    /\ rasters = <<>>
    /\ calls = <<>>
    /\ result = None

\* line 162, one element of the comprehension: load(f) for the next file name
LoadNext ==
    /\ pc = "load"
    /\ Len(rasters) < Len(filenames)
    /\ LET l == load(disk, filenames[Len(rasters) + 1], None)
       IN  /\ calls' = calls \o l.calls
           /\ IF l.ret.ok
              THEN /\ rasters' = Append(rasters, l.ret.val)
                   /\ UNCHANGED <<pc, result>>
              ELSE /\ result' = l.ret
                   /\ pc' = "done"
                   /\ UNCHANGED rasters
    /\ UNCHANGED <<disk, filenames, rastertype>>

\* lines 163-167: collect (geotransform, projection) of every raster and
\* compare; resample_and_reproject is a name nothing defines or imports
Align ==
    /\ pc = "load"
    /\ Len(rasters) = Len(filenames)
    /\ LET g == Gather(rasters)
       IN  IF ~g.ok
           THEN result' = g /\ pc' = "done"
           ELSE IF \/ ~all_equal(g.val.geotransforms)
                   \/ ~all_equal(g.val.projections)
           THEN result' = Raise("NameError") /\ pc' = "done"     \* line 167
           ELSE pc' = "make_table" /\ UNCHANGED result
    /\ UNCHANGED <<disk, filenames, rastertype, rasters, calls>>

\* line 168
Table ==
    /\ pc = "make_table"
    /\ calls' = Append(calls, Call("make_table", rasters))
    /\ result' = make_table(rasters)
    /\ pc' = "done"
    /\ UNCHANGED <<disk, filenames, rastertype, rasters>>

Next == LoadNext \/ Align \/ Table

Spec == Init /\ [][Next]_vars

-----------------------------------------------------------------------------
(* Properties of load_r_raster (checked under SpecRRaster) *)

TheSidecar == disk[<<"a", "grd">>]
ThePayload == disk[<<"a", "gri">>].bytes
TheWidth   == calcsize(DATATYPES[TheSidecar.datatype])

\* the value sequences whose packing is the payload on disk
WrittenFrom ==
    {vs \in SeqsUpTo(Vals(TheSidecar.datatype), MaxCells + MaxJunk) :
        PackAll(DATATYPES[TheSidecar.datatype],
                BYTEORDER[TheSidecar.byteorder], vs) = ThePayload}

\* C8: load_r_raster returns a handle only when the payload is a whole number
\* of values and that number is nrows * ncols; the grid of the handle then
\* is nrows x ncols with one value per cell.
C8_HandleOnlyWhenCountMatches ==
    (pc = "done" /\ result.ok) =>
        /\ Len(ThePayload) % TheWidth = 0
        /\ Len(ThePayload) \div TheWidth = TheSidecar.nrows * TheSidecar.ncols
        /\ result.val.YSize = TheSidecar.nrows
        /\ result.val.XSize = TheSidecar.ncols
        /\ Len(result.val.bands[1].data) = TheSidecar.nrows * TheSidecar.ncols

\* a payload of whole values whose count is not nrows * ncols was refused
C8_Witness ==
    /\ pc = "done"
    /\ <<"a", "grd">> \in DOMAIN disk
    /\ TheSidecar.datatype \in Tags
    /\ TheSidecar.nrows >= 1 /\ TheSidecar.ncols >= 1
    /\ Len(ThePayload) % TheWidth = 0
    /\ Len(ThePayload) \div TheWidth > TheSidecar.nrows * TheSidecar.ncols
    /\ ~result.ok /\ result.err = "ValueError"

\* C5: with minvalue <= maxvalue, band 1 holds v where minvalue <= v <=
\* maxvalue and the nodata sentinel where v is outside the range.
C5_FilterKeepsValuesInRange ==
    (pc = "done" /\ result.ok /\ TheSidecar.minvalue <= TheSidecar.maxvalue) =>
        \A vs \in WrittenFrom : \A k \in 1..Len(vs) :
            result.val.bands[1].data[k] =
                IF TheSidecar.minvalue <= vs[k] /\ vs[k] <= TheSidecar.maxvalue
                THEN vs[k] ELSE TheSidecar.nodatavalue

\* C6: values of a supported datatype, packed row-major in either byte order
\* and loaded, come back in band 1 equal to the originals cell for cell.
C6_RoundTrip ==
    (pc = "done" /\ result.ok) =>
        \A vs \in WrittenFrom : result.val.bands[1].data = vs

-----------------------------------------------------------------------------
(* Properties of make_table (checked under SpecTable) *)

RECURSIVE TotalBands(_)
TotalBands(rs) ==
    IF rs = <<>> THEN 0 ELSE Len(Head(rs).bands) + TotalBands(Tail(rs))

ValueKeys(row) == DOMAIN row \ {"x", "y"}

\* C2: for rasters sharing one rows x cols grid the table has rows*cols rows,
\* and row i holds every band's value at cell i under a key of its own: as
\* many value keys as there are bands over all inputs.
C2_EveryBandUnderItsOwnKey ==
    (pc = "done" /\ result.ok) =>
        /\ Len(result.val) = rasters[1].YSize * rasters[1].XSize
        /\ \A k \in 1..Len(result.val) :
              /\ Cardinality(ValueKeys(result.val[k])) = TotalBands(rasters)
              /\ \A j \in 1..Len(rasters) : \A b \in 1..Len(rasters[j].bands) :
                    \E key \in ValueKeys(result.val[k]) :
                        result.val[k][key] = rasters[j].bands[b].data[k]

\* every raster has one band and no band description
AllPlain(rs) ==
    \A j \in 1..Len(rs) : Len(rs[j].bands) = 1 /\ rs[j].bands[1].desc = ""

\* the centre of cell k (row-major, from 1) of a grid of cols columns
CentreX(gt, cols, k) == RAdd(gt[1], RMul(Rat(2 * ((k - 1) % cols) + 1, 2), gt[2]))
CentreY(gt, cols, k) == RAdd(gt[4], RMul(Rat(2 * ((k - 1) \div cols) + 1, 2), gt[6]))

\* C3: the call completes for every grid of at least one row and column, and
\* every row carries the scalar x and y of the centre of its cell,
\* x = ox + (c + 1/2) xres and y = oy + (r + 1/2) yres.
C3_RowsCarryCellCentres ==
    (pc = "done" /\ AllPlain(rasters)) =>
        /\ result.ok
        /\ Len(result.val) = rasters[1].YSize * rasters[1].XSize
        /\ \A k \in 1..Len(result.val) :
              /\ result.val[k]["x"] = CentreX(rasters[1].gt, rasters[1].XSize, k)
              /\ result.val[k]["y"] = CentreY(rasters[1].gt, rasters[1].XSize, k)

\* the feature name the k-th band of raster r is to get
FeatureName(r, k) ==
    IF r.bands[k].desc # "" THEN r.bands[k].desc
    ELSE IF Len(r.bands) = 1 THEN r.desc[1]
    ELSE r.desc[1] \o "_" \o ToString(k)

\* C4: a band is named by its description when it has one, else by the file's
\* basename (single band) or basename_k (k-th band of several), and every
\* row holds the band's value under that name.
C4_FeatureNames ==
    (pc = "done" /\ result.ok) =>
        \A j \in 1..Len(rasters) : \A b \in 1..Len(rasters[j].bands) :
            \A k \in 1..Len(result.val) :
                /\ FeatureName(rasters[j], b) \in DOMAIN result.val[k]
                /\ result.val[k][FeatureName(rasters[j], b)]
                      = rasters[j].bands[b].data[k]

-----------------------------------------------------------------------------
(* Properties of load (checked under SpecLoad) *)

\* the type load is to settle on is the custom format
Custom(filename, hint) ==
    \/ hint = Hint("r-raster")
    \/ hint \in {None, Hint("")} /\ filename[Len(filename)] \in {"gri", "grd"}

\* C9: when the resolved type is not the custom format, load opens the file
\* through gdal.Open and never calls load_r_raster; it does not raise; it
\* returns the opened handle on success, and on failure prints and returns
\* None.
C9_GenericPath ==
    (pc = "done" /\ ~Custom(filenames[1], rastertype)) =>
        /\ calls[1] = Call("gdal.Open", filenames[1])
        /\ \A k \in 1..Len(calls) : calls[k].fn # "load_r_raster"
        /\ result.ok
        /\ IF GdalOpen(disk, filenames[1]).ok
           THEN result.val = disk[filenames[1]].ds /\ Len(calls) = 1
           ELSE result.val = None /\ Len(calls) = 2
                /\ calls[2] = Call("print", filenames[1])

\* a hint other than 'r-raster' sent a .gri file to gdal.Open, which failed
C9_Witness ==
    /\ pc = "done"
    /\ filenames[1] = <<"a", "gri">>
    /\ rastertype = Hint("generic")
    /\ result = Return(None)
    /\ calls = <<Call("gdal.Open", filenames[1]), Call("print", filenames[1])>>

-----------------------------------------------------------------------------
(* Properties of rasters_to_table (checked under Spec) *)

\* what load gives for the k-th file name
Loaded(k) == load(disk, filenames[k], None).ret

LoadFails(k) == ~Loaded(k).ok \/ Loaded(k).val = None

Handles == [k \in 1..Len(filenames) |-> Loaded(k).val]

Aligned(rs) ==
    \A j, k \in 1..Len(rs) : rs[j].gt = rs[k].gt /\ rs[j].proj = rs[k].proj

CalledAt(k, fn) == k \in 1..Len(calls) /\ calls[k].fn = fn

\* C1: for a non-empty list of loaded rasters, misaligned rasters are all
\* handed to the reproject step before make_table is called and aligned
\* rasters go to make_table unchanged without it; the call ends with what
\* make_table gave.
C1_ReprojectBeforeTable ==
    (/\ pc = "done"
     /\ filenames # <<>>
     /\ \A k \in 1..Len(filenames) : ~LoadFails(k)) =>
        IF Aligned(Handles)
        THEN /\ \A k \in 1..Len(calls) : ~CalledAt(k, "resample_and_reproject")
             /\ \E k \in 1..Len(calls) :
                   CalledAt(k, "make_table") /\ calls[k].arg = Handles
             /\ result = make_table(Handles)
        ELSE \E j, k \in 1..Len(calls) :
                /\ j < k
                /\ CalledAt(j, "resample_and_reproject")
                /\ calls[j].arg = Handles
                /\ CalledAt(k, "make_table")
                /\ result = make_table(calls[k].arg)

\* C7: if loading any file fails, the call ends in an error and make_table
\* is not called; make_table is never handed a missing handle.
C7_AllOrNothing ==
    /\ (pc = "done" /\ \E k \in 1..Len(filenames) : LoadFails(k)) =>
          /\ ~result.ok
          /\ \A k \in 1..Len(calls) : ~CalledAt(k, "make_table")
    /\ \A k \in 1..Len(calls) :
          CalledAt(k, "make_table") =>
              \A j \in 1..Len(calls[k].arg) : calls[k].arg[j] # None

\* the first file loaded, the second gave no handle, and the call raised
C7_Witness ==
    /\ pc = "done"
    /\ Len(filenames) = 2
    /\ ~LoadFails(1)
    /\ Loaded(2) = Return(None)
    /\ rasters = <<Handles[1], None>>
    /\ result = Raise("AttributeError")

\* C10: every raster handed to make_table without reprojection has the grid
\* dimensions of the first.
C10_SameDimensions ==
    \A k \in 1..Len(calls) :
        CalledAt(k, "make_table") =>
            \A j \in 1..Len(calls[k].arg) :
                /\ calls[k].arg[j].XSize = calls[k].arg[1].XSize
                /\ calls[k].arg[j].YSize = calls[k].arg[1].YSize

====
